---- MODULE Spec2Model ----
(***************************************************************************)
(* Minimum-cost partition of a string into contiguous pieces (Q1.py).      *)
(* my_approach is the O(n^3) interval DP, optimal_approach the O(n^2)      *)
(* prefix DP.  Both are modelled statement by statement: one action per    *)
(* execution of a loop body, so that every call of the black-box cost      *)
(* function B and every table write is a step of its own.                  *)
(*                                                                         *)
(* Indices are 0-based as in the Python source.  A cost value is a record  *)
(* [kind, v]: kind "fin" is the number v, kind "inf" is float('inf'),      *)
(* kind "raise" is an exception thrown by B (v identifies the exception).  *)
(***************************************************************************)
EXTENDS Integers, Sequences, FiniteSets

\* Longest input string explored.
MaxLen == 3

\* The characters of the input strings.
Alphabet == {"a", "b"}

VARIABLES
    y,          \* the input string (a sequence of characters)
    B,          \* the black-box cost function, on the non-empty substrings of y
    pc,         \* position of the control flow
    dp2,        \* my_approach: the 2D table dp, indexed by <<start, end>>
    bi,         \* my_approach: loop variable i of the base-case loop (line 23)
    l,          \* my_approach: loop variable l (line 27)
    i,          \* my_approach: loop variable i (line 28)
    k,          \* my_approach: loop variable k (line 35)
    started,    \* my_approach: how often the computation of each entry began
    final,      \* my_approach: the entries whose computation has finished
    splitReads, \* my_approach: the entries read as split operands by the last step
    nCalls,     \* my_approach: the calls of B so far, as slices <<lo, hi>> of y
    naiveOut,   \* my_approach: the outcome of the call
    dp1,        \* optimal_approach: the 1D table dp, indexed 0..n
    pi,         \* optimal_approach: loop variable i (line 53)
    pj,         \* optimal_approach: loop variable j (line 54)
    pReads,     \* optimal_approach: the entries read by the last execution of line 55
    pTarget,    \* optimal_approach: the entry that execution of line 55 computes
    pWritten,   \* optimal_approach: the entries written so far, in order
    pCalls,     \* optimal_approach: the calls of B so far, as slices <<lo, hi>> of y
    prefixOut   \* optimal_approach: the outcome of the call

vars == <<y, B, pc, dp2, bi, l, i, k, started, final, splitReads, nCalls, naiveOut,
          dp1, pi, pj, pReads, pTarget, pWritten, pCalls, prefixOut>>

naiveVars == <<dp2, bi, l, i, k, started, final, splitReads, nCalls, naiveOut>>
prefixVars == <<dp1, pi, pj, pReads, pTarget, pWritten, pCalls, prefixOut>>

----------------------------------------------------------------------------
(* Cost values and Python's arithmetic on them. *)

Fin(v) == [kind |-> "fin", v |-> v]
INF == [kind |-> "inf", v |-> 0]
Raise(e) == [kind |-> "raise", v |-> e]

\* The IndexError of a list index out of range.
IndexError == [kind |-> "raise", v |-> 0]

\* a + b on numbers and float('inf').
Add(a, b) == IF a.kind = "fin" /\ b.kind = "fin" THEN Fin(a.v + b.v) ELSE INF

\* Mutant of Less: float('inf') is compared by its numeric field, as if it
\* were the number 0.
LessIgnoringInf(a, b) == a.v < b.v

\* a < b on numbers and float('inf').
Less(a, b) == a.kind = "fin" /\ (b.kind = "inf" \/ a.v < b.v)

\* Mutant of Min: the running value is kept, no candidate ever replaces it.
MinKeepFirst(a, b) == a

\* Mutant of Min: max in place of min.
MinAsMax(a, b) == IF Less(a, b) THEN b ELSE a

\* min(a, b): the first argument unless the second is smaller.
Min(a, b) == IF Less(b, a) THEN b ELSE a

\* The finite costs explored: negative, zero and positive.
FiniteCosts == {Fin(-1), Fin(0), Fin(2)}

\* len(y)
n == Len(y)

\* y[lo:hi]
Slice(s, lo, hi) == SubSeq(s, lo + 1, hi)

\* The strings over Alphabet of length 0..MaxLen, up to renaming of the
\* characters: the solvers never inspect a character, they only pass
\* substrings to B, and B ranges over all cost functions, so every string
\* behaves as the one that starts with "a" and has the same pattern.
Strings == {s \in UNION {[1..m -> Alphabet] : m \in 0..MaxLen} : s = <<>> \/ s[1] = "a"}

\* The non-empty substrings of s.
Substrings(s) == {Slice(s, lo, hi) : lo \in 0..(Len(s) - 1), hi \in 1..Len(s)} \ {<<>>}

\* The cost functions explored.  Any assignment of finite costs to the
\* substrings of s; the cost len(s)**2 (as in B3, line 72) with float('inf')
\* on an arbitrary set of substrings; the cost len(s) with an exception on
\* an arbitrary set of substrings, the exception depending on the argument.
WithInf(f) == [s \in DOMAIN f |-> IF f[s] THEN INF ELSE Fin(Len(s) * Len(s))]
WithRaise(f) == [s \in DOMAIN f |-> IF f[s] THEN Raise(Len(s)) ELSE Fin(Len(s))]
CostFunctions(s) ==
    [Substrings(s) -> FiniteCosts]
        \cup {WithInf(f) : f \in [Substrings(s) -> BOOLEAN]}
        \cup {WithRaise(f) : f \in [Substrings(s) -> BOOLEAN]}

Pending == [st |-> "pending", val |-> Fin(0)]
Returned(v) == [st |-> "returned", val |-> v]
Raised(e) == [st |-> "raised", val |-> e]

\* The entries <<start, end>> of the interval table with start <= end.
Intervals == {e \in (0..(n - 1)) \X (0..(n - 1)) : e[1] <= e[2]}

\* Mutant of SplitCost: the right part starts at kk instead of kk + 1.
SplitCostOverlap(d, a, kk, b) == Add(d[<<a, kk>>], d[<<kk, b>>])

\* Line 36: the candidate dp[i][k] + dp[k + 1][j] of the split at kk.
SplitCost(d, a, kk, b) == Add(d[<<a, kk>>], d[<<kk + 1, b>>])

\* Mutant of PrefixCand: the cost dp[j] of the prefix is left out.
PrefixCandNoPrefix(d, jj, c) == c

\* Line 55: the candidate dp[j] + B(y[j:i]), c being the value B returned.
PrefixCand(d, jj, c) == Add(d[jj], c)

\* Mutant of Propagate: the exception is caught and float('inf') returned.
PropagateAsInf(r) == Returned(INF)

\* An exception r thrown by B leaves the solver uncaught: the call ends
\* raising r itself (there is no try/except in lines 8-57).
Propagate(r) == Raised(r)

----------------------------------------------------------------------------
(* The harness: a string and a cost function (lines 90-91, generalised). *)

Init ==
    /\ y \in Strings
    /\ B \in CostFunctions(y)
    /\ pc = "call_naive"
    /\ dp2 = <<>>
    /\ bi = 0 /\ l = 0 /\ i = 0 /\ k = 0
    /\ started = <<>>
    /\ final = {}
    /\ splitReads = {}
    /\ nCalls = <<>>
    /\ naiveOut = Pending
    /\ dp1 = <<>>
    /\ pi = 0 /\ pj = 0
    /\ pReads = {}
    /\ pTarget = 0
    /\ pWritten = <<>>
    /\ pCalls = <<>>
    /\ prefixOut = Pending

----------------------------------------------------------------------------
(* my_approach *)

\* The loops `for l in range(1, n + 1): for i in range(n - l):` entered at
\* length len0: the first length from len0 on whose inner range is not
\* empty, or n + 1 when the outer loop is exhausted.
RECURSIVE NextLen(_)
NextLen(len0) ==
    IF len0 >= n + 1 THEN n + 1
    ELSE IF 0 < n - len0 THEN len0
    ELSE NextLen(len0 + 1)

\* Mutant of AfterInterval: the loops nested the other way round,
\* `for i in range(n): for l in range(1, n - i):`.
AfterIntervalByStart ==
    IF i + l + 1 < n
    THEN /\ pc' = "n_whole" /\ l' = l + 1 /\ i' = i
    ELSE IF i + 2 < n
         THEN /\ pc' = "n_whole" /\ l' = 1 /\ i' = i + 1
         ELSE /\ pc' = "n_ret" /\ l' = n + 1 /\ i' = 0

\* Control after the body for (l, i) has been executed: the next i of the
\* inner loop, else the next length, else the return statement.
AfterInterval ==
    IF i + 1 < n - l
    THEN /\ pc' = "n_whole" /\ l' = l /\ i' = i + 1
    ELSE LET nl == NextLen(l + 1) IN
         IF nl <= n
         THEN /\ pc' = "n_whole" /\ l' = nl /\ i' = 0
         ELSE /\ pc' = "n_ret" /\ l' = nl /\ i' = 0

\* Mutant of AfterBase: the outer loop starts at l = 2, `range(2, n + 1)`.
AfterBaseSkip ==
    LET nl == NextLen(2) IN
    IF nl <= n
    THEN /\ pc' = "n_whole" /\ l' = nl /\ i' = 0
    ELSE /\ pc' = "n_ret" /\ l' = nl /\ i' = 0

\* Control after the base-case loop is exhausted.
AfterBase ==
    LET nl == NextLen(1) IN
    IF nl <= n
    THEN /\ pc' = "n_whole" /\ l' = nl /\ i' = 0
    ELSE /\ pc' = "n_ret" /\ l' = nl /\ i' = 0

\* Lines 17-20: n = len(y); dp = n x n table of float('inf').
CallNaive ==
    /\ pc = "call_naive"
    /\ dp2' = [e \in (0..(n - 1)) \X (0..(n - 1)) |-> INF]
    /\ started' = [e \in Intervals |-> 0]
    /\ bi' = 0
    /\ k' = 0
    /\ IF 0 < n
       THEN pc' = "n_base" /\ l' = l /\ i' = i
       ELSE AfterBase
    /\ UNCHANGED <<y, B, final, splitReads, nCalls, naiveOut>>
    /\ UNCHANGED prefixVars

\* Lines 23-24: dp[i][i] = B(y[i]).
NaiveBase ==
    /\ pc = "n_base"
    /\ LET r == B[Slice(y, bi, bi + 1)] IN
       /\ nCalls' = Append(nCalls, <<bi, bi + 1>>)
       /\ started' = [started EXCEPT ![<<bi, bi>>] = @ + 1]
       /\ splitReads' = {}
       /\ k' = k
       /\ IF r.kind = "raise"
          THEN /\ naiveOut' = Propagate(r)
               /\ pc' = "call_prefix"
               /\ UNCHANGED <<dp2, bi, l, i, final>>
          ELSE /\ dp2' = [dp2 EXCEPT ![<<bi, bi>>] = r]
               /\ final' = final \cup {<<bi, bi>>}
               /\ bi' = bi + 1
               /\ naiveOut' = naiveOut
               /\ IF bi + 1 < n
                  THEN pc' = "n_base" /\ l' = l /\ i' = i
                  ELSE AfterBase
    /\ UNCHANGED <<y, B>>
    /\ UNCHANGED prefixVars

\* Lines 29-32: j = i + l; dp[i][j] = B(y[i:j + 1]); then the loop over k
\* starts at k = i (range(i, j) is never empty here, since l >= 1).
NaiveWhole ==
    /\ pc = "n_whole"
    /\ LET j == i + l
           r == B[Slice(y, i, j + 1)] IN
       /\ nCalls' = Append(nCalls, <<i, j + 1>>)
       /\ started' = [started EXCEPT ![<<i, j>>] = @ + 1]
       /\ splitReads' = {}
       /\ IF r.kind = "raise"
          THEN /\ naiveOut' = Propagate(r)
               /\ pc' = "call_prefix"
               /\ UNCHANGED <<dp2, k>>
          ELSE /\ dp2' = [dp2 EXCEPT ![<<i, j>>] = r]
               /\ k' = i
               /\ naiveOut' = naiveOut
               /\ pc' = "n_split"
    /\ UNCHANGED <<y, B, bi, l, i, final>>
    /\ UNCHANGED prefixVars

\* Lines 35-36: dp[i][j] = min(dp[i][j], dp[i][k] + dp[k + 1][j]).
NaiveSplit ==
    /\ pc = "n_split"
    /\ LET j == i + l IN
       /\ dp2' = [dp2 EXCEPT ![<<i, j>>] =
                      Min(dp2[<<i, j>>], SplitCost(dp2, i, k, j))]
       /\ splitReads' = {<<i, k>>, <<k + 1, j>>}
       /\ IF k + 1 < j
          THEN /\ k' = k + 1
               /\ UNCHANGED <<pc, l, i, final>>
          ELSE /\ k' = k
               /\ final' = final \cup {<<i, j>>}
               /\ AfterInterval
    /\ UNCHANGED <<y, B, bi, started, nCalls, naiveOut>>
    /\ UNCHANGED prefixVars

\* Line 39: return dp[0][n - 1]; dp[0] does not exist when n = 0.
NaiveReturn ==
    /\ pc = "n_ret"
    /\ naiveOut' = IF <<0, n - 1>> \in DOMAIN dp2
                   THEN Returned(dp2[<<0, n - 1>>])
                   ELSE Raised(IndexError)
    /\ pc' = "call_prefix"
    /\ splitReads' = {}
    /\ UNCHANGED <<y, B, dp2, bi, l, i, k, started, final, nCalls>>
    /\ UNCHANGED prefixVars

----------------------------------------------------------------------------
(* optimal_approach *)

\* Mutant of CallPrefix: the base case dp[0] = 0 of line 51 is missing.
CallPrefixNoBase ==
    /\ pc = "call_prefix"
    /\ dp1' = [x \in 0..n |-> INF]
    /\ pWritten' = <<>>
    /\ pReads' = {}
    /\ pTarget' = 0
    /\ pi' = 1
    /\ pj' = 0
    /\ pc' = IF 1 < n + 1 THEN "p_loop" ELSE "p_ret"
    /\ UNCHANGED <<y, B, pCalls, prefixOut>>
    /\ UNCHANGED naiveVars

\* Lines 49-51: n = len(y); dp = [inf] * (n + 1); dp[0] = 0.
CallPrefix ==
    /\ pc = "call_prefix"
    /\ dp1' = [x \in 0..n |-> IF x = 0 THEN Fin(0) ELSE INF]
    /\ pWritten' = <<0>>
    /\ pReads' = {}
    /\ pTarget' = 0
    /\ pi' = 1
    /\ pj' = 0
    /\ pc' = IF 1 < n + 1 THEN "p_loop" ELSE "p_ret"
    /\ UNCHANGED <<y, B, pCalls, prefixOut>>
    /\ UNCHANGED naiveVars

\* Line 55: dp[i] = min(dp[i], dp[j] + B(y[j:i])).
PrefixStep ==
    /\ pc = "p_loop"
    /\ LET r == B[Slice(y, pj, pi)] IN
       /\ pCalls' = Append(pCalls, <<pj, pi>>)
       /\ pReads' = {pi, pj}
       /\ pTarget' = pi
       /\ IF r.kind = "raise"
          THEN /\ prefixOut' = Propagate(r)
               /\ pc' = "done"
               /\ UNCHANGED <<dp1, pi, pj, pWritten>>
          ELSE /\ dp1' = [dp1 EXCEPT ![pi] = Min(dp1[pi], PrefixCand(dp1, pj, r))]
               /\ pWritten' = Append(pWritten, pi)
               /\ prefixOut' = prefixOut
               /\ IF pj + 1 < pi
                  THEN pj' = pj + 1 /\ pi' = pi /\ pc' = pc
                  ELSE /\ pj' = 0
                       /\ pi' = pi + 1
                       /\ pc' = IF pi + 1 < n + 1 THEN "p_loop" ELSE "p_ret"
    /\ UNCHANGED <<y, B>>
    /\ UNCHANGED naiveVars

\* Line 57: return dp[n].
PrefixReturn ==
    /\ pc = "p_ret"
    /\ prefixOut' = Returned(dp1[n])
    /\ pc' = "done"
    /\ UNCHANGED <<y, B, dp1, pi, pj, pReads, pTarget, pWritten, pCalls>>
    /\ UNCHANGED naiveVars

----------------------------------------------------------------------------

Next ==
    \/ CallNaive
    \/ NaiveBase
    \/ NaiveWhole
    \/ NaiveSplit
    \/ NaiveReturn
    \/ CallPrefix
    \/ PrefixStep
    \/ PrefixReturn

Spec == Init /\ [][Next]_vars

----------------------------------------------------------------------------
(* The optimum by exhaustive enumeration: a partition of the slice         *)
(* y[lo:hi] is given by its set of cut positions, a subset of lo+1..hi-1.  *)

\* The sum and the order of costs, a cost being a number or +infinity.
Plus(a, b) == IF a.kind = "inf" \/ b.kind = "inf" THEN INF ELSE Fin(a.v + b.v)
Below(a, b) == IF a.kind = "inf" THEN FALSE ELSE (b.kind = "inf" \/ a.v < b.v)

\* B throws on no substring of y.
NoRaise == \A s \in DOMAIN B : B[s].kind # "raise"

Cuts(lo, hi) == SUBSET ((lo + 1)..(hi - 1))

\* The end of the piece that starts at lo, in the partition of y[lo:hi] cut at C.
PieceEnd(lo, hi, C) ==
    CHOOSE c \in C \cup {hi} : c > lo /\ \A d \in C \cup {hi} : d > lo => c <= d

\* The sum of B over the pieces of the partition of y[lo:hi] cut at C.
RECURSIVE PiecesCost(_, _, _)
PiecesCost(lo, hi, C) ==
    IF lo >= hi THEN Fin(0)
    ELSE LET e == PieceEnd(lo, hi, C) IN
         Plus(B[Slice(y, lo, e)], PiecesCost(e, hi, C))

\* Every piece of the partition of y[lo:hi] cut at C has a finite cost.
RECURSIVE AllFinite(_, _, _)
AllFinite(lo, hi, C) ==
    IF lo >= hi THEN TRUE
    ELSE LET e == PieceEnd(lo, hi, C) IN
         B[Slice(y, lo, e)].kind = "fin" /\ AllFinite(e, hi, C)

\* The least element of a non-empty set of cost values.
Least(S) == CHOOSE v \in S : \A w \in S : ~Below(w, v)

\* The minimum cost of a partition of y[lo:hi].
Opt(lo, hi) == Least({PiecesCost(lo, hi, C) : C \in Cuts(lo, hi)})

\* Some partition of y[0:x] into more than one piece is strictly cheaper
\* than y[0:x] taken as one piece.
SplitWins(x) == x >= 2 /\ Below(Opt(0, x), B[Slice(y, 0, x)])

----------------------------------------------------------------------------
(* C1: for a non-empty string and a cost function that returns costs of    *)
(* any sign, my_approach and optimal_approach both return, and return the  *)
(* same value: entry (0, n-1) of the interval table equals entry n of the  *)
(* prefix table.                                                           *)
C1_SolversAgree ==
    (pc = "done" /\ n >= 1 /\ NoRaise) =>
        /\ naiveOut.st = "returned"
        /\ prefixOut.st = "returned"
        /\ naiveOut.val = prefixOut.val
        /\ dp2[<<0, n - 1>>] = dp1[n]

\* Both solvers have returned on a string of length 3 with a negative cost,
\* where splitting beats the single piece.
C1_Witness ==
    /\ pc = "done" /\ n >= 3 /\ NoRaise
    /\ \E s \in DOMAIN B : B[s] = Fin(-1)
    /\ SplitWins(n)
    /\ naiveOut = prefixOut
    /\ naiveOut.st = "returned"

(* C2: when optimal_approach returns, every entry x in 0..n of the prefix  *)
(* table is the minimum cost over all partitions of the prefix y[0:x] into *)
(* non-empty contiguous pieces (0 for x = 0), and the value returned is    *)
(* entry n.                                                                *)
C2_PrefixTableOptimal ==
    (pc = "done" /\ prefixOut.st = "returned") =>
        /\ \A x \in 0..n : dp1[x] = Opt(0, x)
        /\ dp1[0] = Fin(0)
        /\ prefixOut.val = dp1[n]

\* optimal_approach has returned on a string of length 3 whose optimum
\* needs a split, and also the optimum of a proper prefix does.
C2_Witness ==
    /\ prefixOut.st = "returned" /\ n >= 3
    /\ SplitWins(n) /\ SplitWins(n - 1)
    /\ prefixOut.val = Opt(0, n)

(* C3: when my_approach returns on a string of length n >= 1, every entry  *)
(* (start, end), start <= end, of the interval table is the minimum cost   *)
(* over all partitions of y[start..end] into contiguous pieces, and the    *)
(* value returned is entry (0, n-1), the minimum cost of partitioning y.   *)
C3_IntervalTableOptimal ==
    /\ (pc = "call_prefix" /\ naiveOut.st = "returned") =>
        /\ n >= 1
        /\ \A e \in Intervals : dp2[e] = Opt(e[1], e[2] + 1)
        /\ naiveOut.val = dp2[<<0, n - 1>>]
        /\ naiveOut.val = Opt(0, n)
    /\ (n >= 1 /\ NoRaise /\ pc \in {"call_prefix", "p_loop", "p_ret", "done"}) =>
        naiveOut.st = "returned"

\* my_approach has returned on a string of length 3 where an inner interval
\* and the whole string are both best split.
C3_Witness ==
    /\ naiveOut.st = "returned" /\ n >= 3
    /\ Below(dp2[<<1, 2>>], B[Slice(y, 1, 3)])
    /\ Below(dp2[<<0, 2>>], B[y])
    /\ pc = "call_prefix"

(* C4: on the empty string each of my_approach and optimal_approach        *)
(* returns 0, and no indexing fault reaches the caller.                    *)
C4_EmptyReturnsZero ==
    n = 0 =>
        /\ naiveOut.st # "raised"
        /\ prefixOut.st # "raised"
        /\ pc = "done" => (naiveOut = Returned(Fin(0)) /\ prefixOut = Returned(Fin(0)))

(* C5: for a non-empty string the result of each solver is at most the     *)
(* cost B(y) of the whole string as a single piece.                        *)
C5_AtMostSinglePiece ==
    /\ (naiveOut.st = "returned" /\ n >= 1) => ~Below(B[y], naiveOut.val)
    /\ (prefixOut.st = "returned" /\ n >= 1) => ~Below(B[y], prefixOut.val)
    /\ (pc = "done" /\ n >= 1 /\ NoRaise) =>
           (naiveOut.st = "returned" /\ prefixOut.st = "returned")

\* Both solvers have returned B(y) itself on a string of length 3: no
\* split is cheaper than the single piece.
C5_Witness ==
    /\ pc = "done" /\ n >= 3
    /\ naiveOut = Returned(B[y])
    /\ prefixOut = Returned(B[y])
    /\ B[y].kind = "fin"
    /\ \E c \in Cuts(0, n) : Below(B[y], PiecesCost(0, n, c))

\* B returns float('inf') for some piece of y, and throws for none.
SomeInf == NoRaise /\ \E s \in DOMAIN B : B[s] = INF

\* The partitions of y all of whose pieces have a finite cost.
FiniteCuts == {C \in Cuts(0, n) : AllFinite(0, n, C)}

\* What a solver is to return when B returns float('inf') for some pieces.
InfResult ==
    IF FiniteCuts # {}
    THEN Least({PiecesCost(0, n, C) : C \in FiniteCuts})
    ELSE INF

(* C6: when B returns float('inf') for some pieces, neither solver fails;  *)
(* if some partition of y has only pieces of finite cost, each solver      *)
(* returns the (finite) minimum over those partitions, otherwise it        *)
(* returns float('inf').                                                   *)
C6_InfinityUnselected ==
    SomeInf =>
        /\ naiveOut.st # "raised"
        /\ prefixOut.st # "raised"
        /\ pc = "call_prefix" => naiveOut = Returned(InfResult)
        /\ pc = "done" => (naiveOut = prefixOut /\ prefixOut = Returned(InfResult))
        /\ (pc = "done" /\ FiniteCuts # {}) => naiveOut.val.kind = "fin"

\* Both solvers have returned a finite value although the whole string and
\* some other piece cost float('inf').
C6_Witness ==
    /\ pc = "done" /\ n >= 3 /\ SomeInf
    /\ B[y] = INF
    /\ Cardinality({s \in DOMAIN B : B[s] = INF}) >= 2
    /\ naiveOut.st = "returned" /\ naiveOut.val.kind = "fin"
    /\ prefixOut = naiveOut

\* Both solvers have returned float('inf'): every partition has a piece of
\* infinite cost, although some pieces are finite.
C6_WitnessForced ==
    /\ pc = "done" /\ n >= 2 /\ SomeInf
    /\ FiniteCuts = {}
    /\ \E s \in DOMAIN B : B[s].kind = "fin"
    /\ naiveOut = Returned(INF) /\ prefixOut = Returned(INF)

----------------------------------------------------------------------------
(* Calls of the cost function. *)

\* The argument of the call c = <<lo, hi>>: the substring y[lo:hi].
ArgOf(c) == Slice(y, c[1], c[2])

\* The calls in a log whose cost-function call threw.
FailedCalls(log) == {x \in DOMAIN log : B[ArgOf(log[x])].kind = "raise"}

\* A solver whose log holds a failed call stopped at that call, which is the
\* last of the log, and ended raising the very exception B threw, with no
\* result; a solver on a non-empty string raises nothing else.
AbortedAtFailure(log, out) ==
    /\ \A x \in FailedCalls(log) :
          /\ x = Len(log)
          /\ out = Raised(B[ArgOf(log[x])])
    /\ (out.st = "raised" /\ n >= 1) =>
          /\ Len(log) >= 1
          /\ Len(log) \in FailedCalls(log)

(* C7: if a call of the cost function fails, the solver call stops at that *)
(* call: it makes no further call of B and no further table write, it      *)
(* returns no result, and it raises the failure of B unchanged.            *)
C7_AbortOnFailure ==
    /\ [](AbortedAtFailure(nCalls, naiveOut) /\ AbortedAtFailure(pCalls, prefixOut))
    /\ [][/\ naiveOut.st = "raised" => UNCHANGED <<dp2, nCalls, naiveOut>>
          /\ naiveOut'.st = "raised" => dp2' = dp2
          /\ prefixOut.st = "raised" => UNCHANGED <<dp1, pCalls, prefixOut>>
          /\ prefixOut'.st = "raised" => dp1' = dp1]_vars

\* Both solvers have stopped at a failing call after successful calls and
\* table writes, each with the exception of its own first failing call.
C7_Witness ==
    /\ pc = "done"
    /\ naiveOut.st = "raised" /\ prefixOut.st = "raised"
    /\ naiveOut.val # prefixOut.val
    /\ naiveOut.val = B[ArgOf(nCalls[Len(nCalls)])]
    /\ prefixOut.val = B[ArgOf(pCalls[Len(pCalls)])]
    /\ Len(nCalls) >= 3 /\ Len(pCalls) >= 2
    /\ Len(nCalls) < (n * (n + 1)) \div 2

WritesAscend(w) == \A a, b \in DOMAIN w : a < b => w[a] <= w[b]

AllSlices == {c \in (0..n) \X (0..n) : c[1] < c[2]}

\* How often the call c occurs in a log.
Count(log, c) == Cardinality({x \in DOMAIN log : log[x] = c})

\* A log calls B on non-empty slices of y only, on none twice, and, once
\* the solver has returned on a non-empty string, on every slice once.
CallsEachOnce(log, out) ==
    /\ \A x \in DOMAIN log : log[x] \in AllSlices
    /\ \A c \in AllSlices : Count(log, c) <= 1
    /\ (out.st = "returned" /\ n >= 1) =>
          /\ \A c \in AllSlices : Count(log, c) = 1
          /\ 2 * Len(log) = n * (n + 1)

(* C10: on a string of length n >= 1 each solver calls the cost function   *)
(* exactly once on every non-empty slice y[i..j], n(n+1)/2 calls in all,   *)
(* never on the empty string, so the two solvers call it on the same       *)
(* multiset of arguments; the input string is never changed.               *)
C10_CallsEachSliceOnce ==
    /\ [](/\ CallsEachOnce(nCalls, naiveOut)
          /\ CallsEachOnce(pCalls, prefixOut)
          /\ (naiveOut.st = "returned" /\ prefixOut.st = "returned") =>
                \A c \in AllSlices : Count(nCalls, c) = Count(pCalls, c))
    /\ [][y' = y]_vars

\* Both solvers have returned on a string of length 3 after six calls
\* each, made in different orders.
C10_Witness ==
    /\ pc = "done" /\ n = 3
    /\ naiveOut.st = "returned" /\ prefixOut.st = "returned"
    /\ Len(nCalls) = 6 /\ Len(pCalls) = 6
    /\ nCalls # pCalls
    /\ nCalls[4] = <<0, 2>> /\ pCalls[2] = <<0, 2>>

====
